---- MODULE Spec2Model ----
(***************************************************************************)
(* Model of the DNS resolver adapters of reqwest:                          *)
(*   src/src/dns/hickory.rs    HickoryDnsResolver, SocketAddrs             *)
(*   src/src/dns/trust_dns.rs  TrustDnsResolver,  SocketAddrs              *)
(* A handle holds an Arc<OnceCell<TokioAsyncResolver>>, a filter fn and    *)
(* (hickory only) an optional explicit configuration.  resolve() clones    *)
(* the handle, initialises the cell with get_or_try_init, awaits           *)
(* lookup_ip, checks the filter and returns a filtering iterator.          *)
(***************************************************************************)
EXTENDS Integers, Sequences, FiniteSets, Bags

\* ------------------------------------------------------------------ bounds
MaxHandles == 2      \* handles created by new / clone
MaxCalls == 2        \* resolve calls started
MaxAddrs == 3        \* length of a lookup's raw address list

\* ------------------------------------------------------- program constants
CacheSize == 500000  \* opts.cache_size = 500_000

\* --------------------------------------------------------------- universes
Variants == {"hickory", "trust_dns"}
Loopback == "127.0.0.1"
Private == "10.0.0.1"
Public == "93.184.216.34"
IpAddrs == {Loopback, Private, Public}
Names == {"example.com"}
NoneOpt == [some |-> FALSE]
Some(v) == [some |-> TRUE, val |-> v]

\* The filter is a plain fn(IpAddr) -> bool: a pure predicate chosen by the
\* caller of new().  Three such predicates are modelled by name.
Filters == {"reject_loopback", "reject_private", "allow_all"}
Filter(f, ip) ==
    CASE f = "reject_loopback" -> ip # Loopback
      [] f = "reject_private" -> ip \notin {Loopback, Private}
      [] OTHER -> TRUE

\* ResolverOpts values: the two fields the adapter and its description name.
IpStrategies == {"Ipv4thenIpv6", "Ipv4AndIpv6"}
OptsOf(strategy, size) == [ip_strategy |-> strategy, cache_size |-> size]

\* Explicit (ResolverConfig, ResolverOpts) pairs a caller may pass to with_config.
ExplicitConfigs ==
    { Some([config |-> "cfgA", opts |-> OptsOf("Ipv4thenIpv6", 32)]),
      Some([config |-> "cfgB", opts |-> OptsOf("Ipv4AndIpv6", CacheSize)]) }

\* What system_conf::read_system_conf() can return: an error, or the OS
\* configuration with the options /etc/resolv.conf gives.
SysConfResults ==
    { [tag |-> "Err"] } \cup
    { [tag |-> "Ok", config |-> "system", opts |-> OptsOf("Ipv4thenIpv6", 32)] }

\* ------------------------------------------------------------------ errors
ConfigError ==
    [type |-> "io::Error", kind |-> "Other", msg |-> "error reading DNS system conf"]
RestrictedError ==
    [type |-> "ResolveError", kind |-> "Message", msg |-> "destination is restricted"]
EngineErrors ==
    { [type |-> "ResolveError", kind |-> "NoRecordsFound", msg |-> "no record found"],
      [type |-> "ResolveError", kind |-> "Timeout", msg |-> "request timed out"],
      [type |-> "ResolveError", kind |-> "Message", msg |-> "No connections available"] }

Ok(v) == [tag |-> "Ok", val |-> v]
Err(e) == [tag |-> "Err", err |-> e]
Pending == [tag |-> "Pending"]

\* ---------------------------------------------------------- address lists
RECURSIVE SeqsUpTo(_, _)
SeqsUpTo(S, n) ==
    IF n = 0 THEN { <<>> }
    ELSE LET shorter == SeqsUpTo(S, n - 1)
         IN shorter \cup { Append(s, x) : s \in shorter, x \in S }

\* What lookup_ip(name).await can return: an engine error or a raw address list.
LookupResponses(maxLen) ==
    { Err(e) : e \in EngineErrors } \cup { Ok(l) : l \in SeqsUpTo(IpAddrs, maxLen) }

VARIABLES
    handles,    \* the handles created so far (values of type *DnsResolver)
    cells,      \* the OnceCell behind each Arc allocation: status, engine id
    engines,    \* every TokioAsyncResolver constructed, in construction order
    calls,      \* the resolve futures started so far
    attempts,   \* per cell: how often the init closure (new_resolver) ran
    sysReads    \* how often read_system_conf was called

vars == <<handles, cells, engines, calls, attempts, sysReads>>

\* ------------------------------------------------- handles (the structs)
\* HickoryDnsResolver::new / TrustDnsResolver::new: a fresh, empty cell.
NewHandle(variant, filter, cell) ==
    [variant |-> variant, state |-> cell, filter |-> filter, config |-> NoneOpt]

\* (variant: the clone gets a cell of its own, as a field of type OnceCell
\* without the Arc would)
CloneHandleOwnCell(self) == [self EXCEPT !.state = (@ % MaxHandles) + 1]

\* #[derive(Clone)]: the Arc is shared, filter and config are copied.
CloneHandle(self) == self

\* HickoryDnsResolver::with_config(mut self, config, opts) -> Self
WithConfigHandle(self, cfg) == [self EXCEPT !.config = cfg]

EmptyCell == [status |-> "INCOMPLETE", value |-> 0]

\* ------------------------------------------------------- new_resolver
\* HickoryDnsResolver::new_resolver(&self): explicit config if present, else
\* the system configuration; then opts.cache_size = 500_000.
HickoryNewResolver(self, sys) ==
    LET src == IF self.config.some
                 THEN [tag |-> "Ok", config |-> self.config.val.config,
                       opts |-> self.config.val.opts]
                 ELSE sys
    IN IF src.tag = "Err"
         THEN Err(ConfigError)
         ELSE Ok([config |-> src.config,
                  opts |-> [src.opts EXCEPT !.cache_size = CacheSize]])

\* (variant: an unreadable system configuration falls back to a default one)
TrustNewResolverDefaulting(sys) ==
    IF sys.tag = "Err"
      THEN Ok([config |-> "default", opts |-> OptsOf("Ipv4thenIpv6", 32)])
      ELSE Ok([config |-> sys.config, opts |-> sys.opts])

\* trust_dns.rs new_resolver(): the system configuration, options untouched.
TrustNewResolver(sys) ==
    IF sys.tag = "Err"
      THEN Err(ConfigError)
      ELSE Ok([config |-> sys.config, opts |-> sys.opts])

\* The closure handed to get_or_try_init by resolve().
NewResolver(self, sys) ==
    IF self.variant = "hickory" THEN HickoryNewResolver(self, sys)
    ELSE TrustNewResolver(sys)

\* Whether new_resolver reads the system configuration for this handle.
ReadsSystemConf(self) ==
    self.variant = "trust_dns" \/ ~self.config.some

\* ------------------------------------------- OnceCell::get_or_try_init
\* A caller may run its closure only when no value is stored and no other
\* caller's closure is running; otherwise it takes the value or blocks.
\* (variant: no mutual exclusion between initialisers)
CanRunInitUnguarded(cell) == cell.status # "COMPLETE"
CanRunInit(cell) == cell.status = "INCOMPLETE"

\* The cell after the closure returned r; id is the new engine's identity.
\* A failed closure leaves the cell empty, ready for the next caller.
\* (variant: a failed closure poisons the cell, as std::sync::Once would)
CellAfterInitPoisoning(r, id) ==
    IF r.tag = "Ok" THEN [status |-> "COMPLETE", value |-> id]
    ELSE [status |-> "POISONED", value |-> 0]
CellAfterInit(r, id) ==
    IF r.tag = "Ok" THEN [status |-> "COMPLETE", value |-> id]
    ELSE EmptyCell

\* ------------------------------------------------- filter check, iterator
\* (variant: the check only asks whether the lookup returned anything)
IterAnyNonEmpty(addrs, f) == addrs # <<>>

\* lookup.iter().any(filter): short-circuits at the first address that passes.
RECURSIVE IterAny(_, _)
IterAny(addrs, f) ==
    IF addrs = <<>> THEN FALSE
    ELSE IF Filter(f, Head(addrs)) THEN TRUE
    ELSE IterAny(Tail(addrs), f)

\* The number of filter evaluations that any() performs.
RECURSIVE AnyEvals(_, _)
AnyEvals(addrs, f) ==
    IF addrs = <<>> THEN 0
    ELSE IF Filter(f, Head(addrs)) THEN 1
    ELSE 1 + AnyEvals(Tail(addrs), f)

\* SocketAddr::new(ip_addr, 0)
SocketAddrNew(ip) == [ip |-> ip, port |-> 0]

\* (variant: next() wraps the next raw element without asking the filter)
SocketAddrsNextUnfiltered(iter, f) ==
    IF iter = <<>>
      THEN [item |-> NoneOpt, iter |-> <<>>, consumed |-> 0]
      ELSE [item |-> Some(SocketAddrNew(Head(iter))), iter |-> Tail(iter), consumed |-> 1]

\* (variant: next() ends the sequence at the first rejected element)
SocketAddrsNextStopping(iter, f) ==
    IF iter = <<>>
      THEN [item |-> NoneOpt, iter |-> <<>>, consumed |-> 0]
      ELSE IF Filter(f, Head(iter))
        THEN [item |-> Some(SocketAddrNew(Head(iter))), iter |-> Tail(iter), consumed |-> 1]
        ELSE [item |-> NoneOpt, iter |-> Tail(iter), consumed |-> 1]

\* SocketAddrs::next(): loop { let ip = self.iter.next()?; if filter(ip) {
\* return Some(SocketAddr::new(ip, 0)) } }.  Gives the item (or None), the
\* iterator that remains and the number of raw elements consumed.
RECURSIVE SocketAddrsNext(_, _)
SocketAddrsNext(iter, f) ==
    IF iter = <<>>
      THEN [item |-> NoneOpt, iter |-> <<>>, consumed |-> 0]
      ELSE IF Filter(f, Head(iter))
        THEN [item |-> Some(SocketAddrNew(Head(iter))), iter |-> Tail(iter), consumed |-> 1]
        ELSE LET rest == SocketAddrsNext(Tail(iter), f)
             IN [rest EXCEPT !.consumed = @ + 1]

\* (variant: the restricted-destination check is missing)
ResolveOutcomeUnchecked(response, f) ==
    IF response.tag = "Err" THEN Err(response.err)
    ELSE Ok([iter |-> response.val, filter |-> f])

\* (variant: an engine error is replaced by the adapter's own error)
ResolveOutcomeMasking(response, f) ==
    IF response.tag = "Err" THEN Err(RestrictedError)
    ELSE IF ~IterAny(response.val, f) THEN Err(RestrictedError)
    ELSE Ok([iter |-> response.val, filter |-> f])

\* The part of resolve() after lookup_ip(..).await returned `response`:
\* `?` on an engine error, the any(filter) check, the SocketAddrs wrapper.
ResolveOutcome(response, f) ==
    IF response.tag = "Err" THEN Err(response.err)
    ELSE IF ~IterAny(response.val, f) THEN Err(RestrictedError)
    ELSE Ok([iter |-> response.val, filter |-> f])

\* Filter evaluations resolve() itself performs for `response`.
ResolveFilterEvals(response, f) ==
    IF response.tag = "Err" THEN 0 ELSE AnyEvals(response.val, f)

\* rand::random::<f32>() < 0.01 decides the log line; hickory only, and only
\* after a lookup that succeeded.
LogsLookup(self, response, sample) ==
    self.variant = "hickory" /\ response.tag = "Ok" /\ sample

\* (variant: a name already looked up is answered from an adapter-side cache)
EngineQueryCached(engine, name) ==
    IF engine.queries[name] > 0 THEN engine
    ELSE [engine EXCEPT !.queries = [@ EXCEPT ![name] = @ + 1]]

\* resolver.lookup_ip(name): the engine receives one query for `name`.
EngineQuery(engine, name) ==
    [engine EXCEPT !.queries = [@ EXCEPT ![name] = @ + 1]]

\* (variant: a failed construction is tried again instead of failing the call)
CallAfterInitRetrying(c, r, id, sys) ==
    IF r.tag = "Ok"
      THEN [c EXCEPT !.pc = "lookup", !.engine = id,
                     !.conf = IF ReadsSystemConf(c.resolver) THEN Some(sys) ELSE NoneOpt]
      ELSE [c EXCEPT !.pc = "init",
                     !.conf = IF ReadsSystemConf(c.resolver) THEN Some(sys) ELSE NoneOpt]

\* (variant: the error of a failed construction is dropped and the call goes on)
CallAfterInitIgnoringError(c, r, id, sys) ==
    [c EXCEPT !.pc = "lookup", !.engine = IF r.tag = "Ok" THEN id ELSE 0,
              !.conf = IF ReadsSystemConf(c.resolver) THEN Some(sys) ELSE NoneOpt]

\* The future after `self.state.get_or_try_init(|| self.new_resolver())?` ran
\* its closure with result `r`: it holds the stored engine `id`, or has
\* returned the closure's error.
CallAfterInit(c, r, id, sys) ==
    IF r.tag = "Ok"
      THEN [c EXCEPT !.pc = "lookup", !.engine = id,
                     !.conf = IF ReadsSystemConf(c.resolver) THEN Some(sys) ELSE NoneOpt]
      ELSE [c EXCEPT !.pc = "done", !.result = Err(r.err),
                     !.conf = IF ReadsSystemConf(c.resolver) THEN Some(sys) ELSE NoneOpt]

\* (variant: the filter check is skipped when the sampled log line is written)
CallAfterLookupSampled(c, response, sample) ==
    LET self == c.resolver
        outcome == IF LogsLookup(self, response, sample)
                     THEN ResolveOutcomeUnchecked(response, self.filter)
                     ELSE ResolveOutcome(response, self.filter)
    IN [c EXCEPT
          !.pc = "done",
          !.response = response,
          !.result = IF outcome.tag = "Ok" THEN Ok("addrs") ELSE outcome,
          !.addrs = IF outcome.tag = "Ok" THEN Some(outcome.val) ELSE NoneOpt,
          !.filterEvals = IF LogsLookup(self, response, sample) THEN 0
                          ELSE ResolveFilterEvals(response, self.filter),
          !.logged = LogsLookup(self, response, sample)]

\* The future after lookup_ip(..).await returned `response` and the rest of
\* the async block ran to its end.
CallAfterLookup(c, response, sample) ==
    LET self == c.resolver
        outcome == ResolveOutcome(response, self.filter)
    IN [c EXCEPT
          !.pc = "done",
          !.response = response,
          !.result = IF outcome.tag = "Ok" THEN Ok("addrs") ELSE outcome,
          !.addrs = IF outcome.tag = "Ok" THEN Some(outcome.val) ELSE NoneOpt,
          !.filterEvals = ResolveFilterEvals(response, self.filter),
          !.logged = LogsLookup(self, response, sample)]

\* (variant: a failed lookup throws the engine away so that the next call rebuilds it)
CellAfterLookupResetting(cell, response) ==
    IF response.tag = "Err" THEN EmptyCell ELSE cell

\* The shared cell after the rest of resolve() ran: the code past
\* get_or_try_init only reads the engine.
CellAfterLookup(cell, response) == cell

\* (variant: the future can also be dropped while its closure is running)
CanDropAnywhere(c) == c.pc \in {"init", "constructing", "lookup", "awaiting"}

\* A resolve future can be dropped where it is not being polled: before its
\* first poll, or suspended at lookup_ip(..).await.  get_or_try_init and the
\* code after the await run inside one poll.
CanDrop(c) == c.pc \in {"init", "awaiting"}

\* ------------------------------------------------------------ state, Init
\* A resolve future right after `let resolver = self.clone()`.
NewCall(self, name, isFresh) ==
    [ resolver |-> CloneHandle(self),
      name |-> name,
      pc |-> "init",
      engine |-> 0,                 \* the engine get_or_try_init returned
      tries |-> 0,                  \* construction attempts this call made
      issued |-> 0,                 \* lookups this call issued
      response |-> Pending,         \* what lookup_ip returned
      result |-> Pending,           \* what the future resolved to
      addrs |-> NoneOpt,            \* the SocketAddrs it returned
      yielded |-> <<>>,             \* the items pulled from it so far
      exhausted |-> FALSE,          \* next() has returned None
      consumed |-> 0,               \* raw elements next() has taken
      filterEvals |-> 0,            \* filter evaluations made for this call
      logged |-> FALSE,             \* the sampled log line was written
      fresh |-> isFresh,            \* started before any attempt on its cell
      conf |-> NoneOpt ]            \* what read_system_conf() returned to its closure

\* Handles and futures have no identity of their own: both are kept as bags.
One(x) == SetToBag({x})
Replace(bag, old, new) == (bag (-) One(old)) (+) One(new)
Handles == BagToSet(handles)
Calls == BagToSet(calls)

\* The Arc allocations a handle can point to; new() allocates the first.
CellIds == 1..MaxHandles
FirstCell == 1

\* (variant: new() builds the engine from the system configuration at once)
InitWithEagerEngine(filters) ==
    /\ \E v \in Variants, f \in filters : handles = One(NewHandle(v, f, FirstCell))
    /\ cells = [i \in CellIds |->
                  IF i = FirstCell THEN [status |-> "COMPLETE", value |-> 1] ELSE EmptyCell]
    /\ engines = << [config |-> "system",
                     opts |-> OptsOf("Ipv4thenIpv6", 32),
                     cell |-> FirstCell, queries |-> [n \in Names |-> 0]] >>
    /\ calls = EmptyBag
    /\ attempts = [i \in CellIds |-> IF i = FirstCell THEN 1 ELSE 0]
    /\ sysReads = 1

\* The state after `new(filter)`: one handle, its cell empty.  Handles made by
\* separate calls of new() share nothing, so one family of clones is modelled.
InitWith(filters) ==
    /\ \E v \in Variants, f \in filters : handles = One(NewHandle(v, f, FirstCell))
    /\ cells = [i \in CellIds |-> EmptyCell]
    /\ engines = <<>>
    /\ calls = EmptyBag
    /\ attempts = [i \in CellIds |-> 0]
    /\ sysReads = 0

\* ---------------------------------------------------------------- actions
\* handle.clone()
Clone(h) ==
    /\ BagCardinality(handles) < MaxHandles
    /\ handles' = handles (+) One(CloneHandle(h))
    /\ UNCHANGED <<cells, engines, calls, attempts, sysReads>>

\* handle.with_config(config, opts): consumes the handle and returns it changed.
WithConfig(h, cfg) ==
    /\ h.variant = "hickory"
    /\ h.config # cfg
    /\ handles' = Replace(handles, h, WithConfigHandle(h, cfg))
    /\ UNCHANGED <<cells, engines, calls, attempts, sysReads>>

\* handle.resolve(name): clones the handle into a new future.
Resolve(h, name) ==
    /\ BagCardinality(calls) < MaxCalls
    /\ calls' = calls (+) One(NewCall(h, name, attempts[h.state] = 0))
    /\ UNCHANGED <<handles, cells, engines, attempts, sysReads>>

\* get_or_try_init, value already stored: return it.
InitGet(c) ==
    /\ c.pc = "init"
    /\ cells[c.resolver.state].status = "COMPLETE"
    /\ calls' = Replace(calls, c,
          [c EXCEPT !.pc = "lookup", !.engine = cells[c.resolver.state].value])
    /\ UNCHANGED <<handles, cells, engines, attempts, sysReads>>

\* get_or_try_init, cell empty and nobody initialising: start running the closure.
InitBegin(c) ==
    /\ c.pc = "init"
    /\ cells[c.resolver.state].status # "COMPLETE"
    /\ CanRunInit(cells[c.resolver.state])
    /\ cells' = [cells EXCEPT ![c.resolver.state].status = "RUNNING"]
    /\ attempts' = [attempts EXCEPT ![c.resolver.state] = @ + 1]
    /\ calls' = Replace(calls, c, [c EXCEPT !.pc = "constructing", !.tries = @ + 1])
    /\ UNCHANGED <<handles, engines, sysReads>>

\* The closure returns: store the engine, or leave the cell empty and fail with `?`.
InitFinish(c, sys) ==
    /\ c.pc = "constructing"
    /\ LET self == c.resolver
           r == NewResolver(self, sys)
           id == Len(engines) + 1
           cell == CellAfterInit(r, id)
       IN /\ sysReads' = sysReads + (IF ReadsSystemConf(self) THEN 1 ELSE 0)
          /\ cells' = [cells EXCEPT ![self.state] = cell]
          /\ engines' = IF r.tag = "Ok"
                          THEN Append(engines,
                                 [config |-> r.val.config, opts |-> r.val.opts,
                                  cell |-> self.state, queries |-> [n \in Names |-> 0]])
                          ELSE engines
          /\ calls' = Replace(calls, c, CallAfterInit(c, r, cell.value, sys))
    /\ UNCHANGED <<handles, attempts>>

\* resolver.lookup_ip(name.as_str()): the query goes to the engine; the future suspends.
LookupIssue(c) ==
    /\ c.pc = "lookup"
    /\ engines' = [engines EXCEPT ![c.engine] = EngineQuery(@, c.name)]
    /\ calls' = Replace(calls, c, [c EXCEPT !.pc = "awaiting", !.issued = @ + 1])
    /\ UNCHANGED <<handles, cells, attempts, sysReads>>

\* .await returns `response`; the rest of the async block runs to its end.
LookupComplete(c, response, sample) ==
    /\ c.pc = "awaiting"
    /\ calls' = Replace(calls, c, CallAfterLookup(c, response, sample))
    /\ cells' = [cells EXCEPT ![c.resolver.state] = CellAfterLookup(@, response)]
    /\ UNCHANGED <<handles, engines, attempts, sysReads>>

\* The caller drops the future before it completed: its captured handle clone
\* and, if suspended, the pending lookup are released; nothing else is touched.
Drop(c) ==
    /\ CanDrop(c)
    /\ calls' = Replace(calls, c, [c EXCEPT !.pc = "dropped"])
    /\ UNCHANGED <<handles, cells, engines, attempts, sysReads>>

\* The caller pulls the next item from the returned SocketAddrs.
IterNext(c) ==
    /\ c.pc = "done"
    /\ c.result.tag = "Ok"
    /\ ~c.exhausted
    /\ LET n == SocketAddrsNext(c.addrs.val.iter, c.addrs.val.filter)
       IN calls' = Replace(calls, c, [c EXCEPT
              !.addrs = [@ EXCEPT !.val.iter = n.iter],
              !.yielded = IF n.item.some THEN Append(@, n.item.val) ELSE @,
              !.exhausted = ~n.item.some,
              !.consumed = @ + n.consumed,
              !.filterEvals = @ + n.consumed])
    /\ UNCHANGED <<handles, cells, engines, attempts, sysReads>>

\* ---------------------------------------------------------- specifications
\* The inputs of the concurrency specification: one filter and one lookup
\* response per outcome kind, no log sampling; the address lists, the iterator
\* and the sampling are exercised in full by LookupSpec below.
RaceFilters == {"reject_loopback"}
RaceResponses ==
    { Err([type |-> "ResolveError", kind |-> "NoRecordsFound", msg |-> "no record found"]),
      Ok(<<Loopback>>), Ok(<<Public>>) }

Init == InitWith(RaceFilters)

Next ==
    \/ \E h \in Handles : Clone(h)
    \/ \E h \in Handles, cfg \in ExplicitConfigs : WithConfig(h, cfg)
    \/ \E h \in Handles, n \in Names : Resolve(h, n)
    \/ \E c \in Calls : InitGet(c)
    \/ \E c \in Calls : InitBegin(c)
    \/ \E c \in Calls, sys \in SysConfResults : InitFinish(c, sys)
    \/ \E c \in Calls : LookupIssue(c)
    \/ \E c \in Calls, r \in RaceResponses : LookupComplete(c, r, FALSE)

Spec == Init /\ [][Next]_vars

\* One resolve call on a fresh handle, with every lookup response up to
\* MaxAddrs addresses, both sampling outcomes and the draining of the result.
ResolveAlone(h, name) ==
    /\ calls = EmptyBag
    /\ Resolve(h, name)

LookupInit == InitWith(Filters)

LookupNext ==
    \/ \E h \in Handles, n \in Names : ResolveAlone(h, n)
    \/ \E c \in Calls : InitBegin(c)
    \/ \E c \in Calls, sys \in SysConfResults : InitFinish(c, sys)
    \/ \E c \in Calls : LookupIssue(c)
    \/ \E c \in Calls, r \in LookupResponses(MaxAddrs), s \in BOOLEAN :
           LookupComplete(c, r, s)
    \/ \E c \in Calls : IterNext(c)

LookupSpec == LookupInit /\ [][LookupNext]_vars

\* ================================================================ claims
\* The concurrency specification with cancellation: any resolve future may
\* also be dropped by its caller at a point where it is suspended.
CancelNext ==
    \/ \E h \in Handles : Clone(h)
    \/ \E h \in Handles, cfg \in ExplicitConfigs : WithConfig(h, cfg)
    \/ \E h \in Handles, n \in Names : Resolve(h, n)
    \/ \E c \in Calls : InitGet(c)
    \/ \E c \in Calls : InitBegin(c)
    \/ \E c \in Calls, sys \in SysConfResults : InitFinish(c, sys)
    \/ \E c \in Calls : LookupIssue(c)
    \/ \E c \in Calls, r \in RaceResponses : LookupComplete(c, r, FALSE)
    \/ \E c \in Calls : Drop(c)

CancelSpec == Init /\ [][CancelNext]_vars

\* The two resolvers side by side: a HickoryDnsResolver without explicit
\* configuration and a TrustDnsResolver, each made by its own new() with the
\* same filter, are sent the same sequence of resolve calls.  The hickory
\* handle makes its k-th call first; the trust_dns handle then makes its k-th
\* call and is given the same system-configuration result and the same lookup
\* response wherever it asks for one.
SecondCell == FirstCell + 1

PairInit ==
    /\ \E f \in Filters :
          handles = One(NewHandle("hickory", f, FirstCell))
                      (+) One(NewHandle("trust_dns", f, SecondCell))
    /\ cells = [i \in CellIds |-> EmptyCell]
    /\ engines = <<>>
    /\ calls = EmptyBag
    /\ attempts = [i \in CellIds |-> 0]
    /\ sysReads = 0

Family(i) == { c \in Calls : c.resolver.state = i }
FamilySize(i) == BagCardinality([c \in Family(i) |-> calls[c]])
Idle(i) == \A c \in Family(i) : c.pc = "done"

\* What a caller and the environment see of a call: its inputs and its outcome.
Observed(c) ==
    [ name |-> c.name, conf |-> c.conf, response |-> c.response,
      result |-> c.result, addrs |-> c.addrs, tries |-> c.tries, issued |-> c.issued ]
ObservedIn(i, o) ==
    BagCardinality([c \in { x \in Family(i) : x.pc = "done" /\ Observed(x) = o } |-> calls[c]])

\* The hickory call that the trust_dns handle has not yet repeated.
Unmatched ==
    { c \in Family(FirstCell) :
        c.pc = "done" /\ ObservedIn(FirstCell, Observed(c)) > ObservedIn(SecondCell, Observed(c)) }

PairResolve(h, name) ==
    /\ Idle(FirstCell) /\ Idle(SecondCell)
    /\ IF h.state = FirstCell
         THEN FamilySize(FirstCell) = FamilySize(SecondCell) /\ FamilySize(FirstCell) < MaxCalls
         ELSE FamilySize(FirstCell) = FamilySize(SecondCell) + 1
    /\ calls' = calls (+) One(NewCall(h, name, attempts[h.state] = 0))
    /\ UNCHANGED <<handles, cells, engines, attempts, sysReads>>

PairInitFinish(c, sys) ==
    /\ c.resolver.state = SecondCell => \E u \in Unmatched : u.conf \in {NoneOpt, Some(sys)}
    /\ InitFinish(c, sys)

PairLookupComplete(c, response, sample) ==
    /\ c.resolver.state = SecondCell => \E u \in Unmatched : u.response \in {Pending, response}
    /\ LookupComplete(c, response, sample)

PairNext ==
    \/ \E h \in Handles, n \in Names : PairResolve(h, n)
    \/ \E c \in Calls : InitGet(c)
    \/ \E c \in Calls : InitBegin(c)
    \/ \E c \in Calls, sys \in SysConfResults : PairInitFinish(c, sys)
    \/ \E c \in Calls : LookupIssue(c)
    \/ \E c \in Calls, r \in RaceResponses, s \in BOOLEAN : PairLookupComplete(c, r, s)

PairSpec == PairInit /\ [][PairNext]_vars

\* Helpers for stating the claims.
CountCalls(P(_)) == BagCardinality([c \in {x \in Calls : P(x)} |-> calls[c]])
ConfigFailed(c) == c.pc = "done" /\ c.result = Err(ConfigError)
Constructing(c) == c.pc = "constructing"
PastInit(c) == c.pc \in {"lookup", "awaiting"} \/ (c.pc = "done" /\ ~ConfigFailed(c))
ReachedLookup(c) == c.pc = "awaiting" \/ (c.pc = "done" /\ c.response # Pending)
\* The calls form a batch started concurrently on the fresh handle: each was
\* started before any construction attempt had begun.
FreshBatch == \A c \in Calls : c.fresh
\* The call record that a step produced, given the one it consumed.
Produced(d) == CopiesIn(d, calls') > CopiesIn(d, calls)
Consumed(c) == CopiesIn(c, calls') < CopiesIn(c, calls)

C2_FailureState ==
    /\ \A c \in Calls : ConfigFailed(c) =>
          c.tries = 1 /\ c.engine = 0 /\ c.issued = 0 /\ c.response = Pending
    /\ \A i \in CellIds : cells[i].status \in {"INCOMPLETE", "RUNNING", "COMPLETE"}
    /\ (cells[FirstCell].status = "INCOMPLETE") =>
          \A c \in Calls : c.pc = "init" => ENABLED InitBegin(c)
C2_AttemptStep ==
    \A c \in Calls : (Constructing(c) /\ Consumed(c)) =>
        \E d \in BagToSet(calls') :
            /\ Produced(d)
            /\ \/ /\ d.pc = "done" /\ d.result = Err(ConfigError)
                  /\ cells'[FirstCell] = EmptyCell
                  /\ engines' = engines
               \/ /\ d.pc = "lookup"
                  /\ Len(engines') = Len(engines) + 1
                  /\ cells'[FirstCell] = [status |-> "COMPLETE", value |-> Len(engines')]
                  /\ d.engine = Len(engines')
C2_RetryAfterFailure == []C2_FailureState /\ [][C2_AttemptStep]_vars

\* A call failed with the configuration error; a call started afterwards made
\* its own attempt, which succeeded and took it to the lookup.
C2_Witness ==
    /\ \E c \in Calls : ConfigFailed(c)
    /\ \E d \in Calls :
          /\ ~d.fresh /\ d.tries = 1 /\ d.pc = "lookup"
          /\ cells[FirstCell].status = "COMPLETE"
          /\ d.engine = cells[FirstCell].value

\* The addresses of `raw` that satisfy `f`, in order, as socket addresses with port 0.
Permitted(raw, f) ==
    LET Passes(ip) == Filter(f, ip)
        kept == SelectSeq(raw, Passes)
    IN [i \in 1..Len(kept) |-> [ip |-> kept[i], port |-> 0]]
SomePasses(raw, f) == \E i \in 1..Len(raw) : Filter(f, raw[i])
IsPrefix(s, t) == Len(s) <= Len(t) /\ \A i \in 1..Len(s) : s[i] = t[i]
LookupOk(c) == c.pc = "done" /\ c.response.tag = "Ok"

\* C3: when the raw address list holds an address that satisfies the filter,
\* resolve succeeds and draining the sequence yields exactly the satisfying
\* addresses, in the engine's order, each with port 0.
C3_YieldsPermittedInOrder ==
    \A c \in Calls :
        (LookupOk(c) /\ SomePasses(c.response.val, c.resolver.filter)) =>
            /\ c.result.tag = "Ok"
            /\ IsPrefix(c.yielded, Permitted(c.response.val, c.resolver.filter))
            /\ c.exhausted => c.yielded = Permitted(c.response.val, c.resolver.filter)

\* [127.0.0.1, 93.184.216.34] under the reject-loopback filter, drained: it
\* yielded exactly [93.184.216.34:0].
C3_Witness ==
    \E c \in Calls :
        /\ LookupOk(c) /\ c.exhausted
        /\ c.resolver.filter = "reject_loopback"
        /\ c.response.val = <<Loopback, Public>>
        /\ c.yielded = <<[ip |-> Public, port |-> 0]>>

\* C4: a lookup that returns a non-empty list none of whose addresses satisfy
\* the filter fails with "destination is restricted"; no sequence is returned.
C4_AllRejectedIsRestricted ==
    \A c \in Calls :
        (LookupOk(c) /\ c.response.val # <<>>
                     /\ ~SomePasses(c.response.val, c.resolver.filter)) =>
            /\ c.result = Err(RestrictedError)
            /\ c.addrs = NoneOpt
            /\ c.yielded = <<>>

\* [127.0.0.1] under the reject-loopback filter: the restricted error.
C4_Witness ==
    \E c \in Calls :
        /\ LookupOk(c)
        /\ c.resolver.filter = "reject_loopback"
        /\ c.response.val = <<Loopback>>
        /\ c.result = Err(RestrictedError)

\* C5: a successful resolve never comes from an empty raw list; every address
\* its sequence yields satisfies the filter, and drained it has yielded at
\* least one.
C5_SuccessIsNonEmptyAndPermitted ==
    \A c \in Calls :
        (c.pc = "done" /\ c.result.tag = "Ok") =>
            /\ c.response.tag = "Ok" /\ c.response.val # <<>>
            /\ \A i \in 1..Len(c.yielded) :
                  c.yielded[i].ip \in IpAddrs /\ Filter(c.resolver.filter, c.yielded[i].ip)
            /\ c.exhausted => Len(c.yielded) >= 1

\* A drained success whose raw list also held a rejected address.
C5_Witness ==
    \E c \in Calls :
        /\ c.pc = "done" /\ c.result.tag = "Ok" /\ c.exhausted
        /\ Len(c.yielded) >= 1
        /\ \E i \in 1..Len(c.response.val) : ~Filter(c.resolver.filter, c.response.val[i])

\* C6: when the engine's lookup fails, resolve fails with that very error, the
\* filter is not evaluated and no sequence is created.
C6_LookupErrorPropagates ==
    \A c \in Calls :
        (c.pc = "done" /\ c.response.tag = "Err") =>
            /\ c.response.err \in EngineErrors
            /\ c.result = Err(c.response.err)
            /\ c.filterEvals = 0
            /\ c.addrs = NoneOpt
            /\ c.yielded = <<>> /\ ~c.exhausted

\* A call whose lookup failed with "no record found".
C6_Witness ==
    \E c \in Calls :
        /\ c.pc = "done" /\ c.issued = 1
        /\ c.response.tag = "Err" /\ c.response.err.kind = "NoRecordsFound"
        /\ c.result = c.response

\* The number of lookups for `name` the engines have received.
RECURSIVE QueriesUpTo(_, _)
QueriesUpTo(i, name) ==
    IF i = 0 THEN 0 ELSE engines[i].queries[name] + QueriesUpTo(i - 1, name)
TotalQueries(name) == QueriesUpTo(Len(engines), name)

\* C7: however many calls run, sequentially or concurrently, at most one
\* construction succeeds (exactly one once the cell is initialised), and every
\* call that reaches the lookup step issues its own lookup: k such calls for a
\* hostname make k engine lookups.
C7_OneEngineLookupPerCall ==
    /\ Len(engines) <= 1
    /\ (cells[FirstCell].status = "COMPLETE") <=> (Len(engines) = 1)
    /\ \A c \in Calls : ReachedLookup(c) => c.issued = 1 /\ c.engine \in DOMAIN engines
    /\ \A n \in Names :
          TotalQueries(n) = CountCalls(LAMBDA c : ReachedLookup(c) /\ c.name = n)

\* Two calls for the same hostname have reached the lookup: one engine, two lookups.
C7_Witness ==
    /\ Len(engines) = 1
    /\ \E n \in Names :
          /\ CountCalls(LAMBDA c : ReachedLookup(c) /\ c.name = n) = 2
          /\ engines[1].queries[n] = 2

\* C8 (as stated): every engine the adapter constructs has the dual-stack
\* IP-family strategy and the cache capacity of 500,000 entries.
C8_OptionsOverridden ==
    \A i \in DOMAIN engines :
        /\ engines[i].opts.ip_strategy = "Ipv4AndIpv6"
        /\ engines[i].opts.cache_size = CacheSize

\* C9 (as stated): a call made on a handle that carries explicit configuration
\* is served by an engine constructed from that configuration.
C9_ExplicitConfigServes ==
    \A c \in Calls :
        (c.resolver.config.some /\ c.engine # 0) =>
            engines[c.engine].config = c.resolver.config.val.config

\* C10: all clones refer to the one cell; once it holds an engine, every call
\* on every clone gets that engine and no construction attempt is made any more.
C10_OneCell ==
    /\ \A h \in Handles : h.state = FirstCell
    /\ \A c \in Calls : c.resolver.state = FirstCell
    /\ Len(engines) <= 1
    /\ \A i \in CellIds \ {FirstCell} : cells[i] = EmptyCell /\ attempts[i] = 0
    /\ \A c \in Calls : PastInit(c) =>
          cells[FirstCell].status = "COMPLETE" /\ c.engine = cells[FirstCell].value
C10_NoAttemptOnceInitialised ==
    (cells[FirstCell].status = "COMPLETE") =>
        /\ cells' = cells
        /\ attempts' = attempts
        /\ sysReads' = sysReads
        /\ Len(engines') = Len(engines)
        /\ \A d \in BagToSet(calls') : Produced(d) => d.pc # "constructing"
C10_ClonesShareEngine == []C10_OneCell /\ [][C10_NoAttemptOnceInitialised]_vars

\* Two calls made on clones that differ in configuration hold the same engine;
\* one constructed it, the other made no attempt.
C10_Witness ==
    /\ BagCardinality(handles) >= 2
    /\ \E c, d \in Calls :
          /\ c.resolver.config # d.resolver.config
          /\ PastInit(c) /\ PastInit(d)
          /\ c.tries = 1 /\ d.tries = 0
          /\ c.engine = d.engine /\ c.engine = cells[FirstCell].value

\* C11: dropping a resolve future before it completed leaves the shared cell
\* empty or holding a fully built engine, never stuck: the drop step changes
\* only the dropped call; a running closure always has a live owner that can
\* finish it; every call still in flight can take its next step; and an engine
\* that a later-dropped call stored stays in the cell for the others.
Dropped(c) == c.pc = "dropped"
C11_CellNeverWedged ==
    /\ \A i \in CellIds : cells[i].status \in {"INCOMPLETE", "RUNNING", "COMPLETE"}
    /\ cells[FirstCell].status = "COMPLETE" => cells[FirstCell].value \in DOMAIN engines
    /\ cells[FirstCell].status = "RUNNING" =>
          \E d \in Calls : Constructing(d) /\ \A sys \in SysConfResults : ENABLED InitFinish(d, sys)
    /\ \A c \in Calls :
          /\ c.pc = "init" =>
                \/ ENABLED InitBegin(c)
                \/ ENABLED InitGet(c)
                \/ \E d \in Calls : Constructing(d)
          /\ c.pc = "lookup" => ENABLED LookupIssue(c)
          /\ c.pc = "awaiting" => \A r \in RaceResponses : ENABLED LookupComplete(c, r, FALSE)
          /\ (Dropped(c) /\ c.tries = 1) =>
                /\ c.engine # 0
                /\ cells[FirstCell] = [status |-> "COMPLETE", value |-> c.engine]
          /\ (c.pc = "done" /\ ~ConfigFailed(c)) =>
                c.result = (LET o == ResolveOutcome(c.response, c.resolver.filter)
                            IN IF o.tag = "Ok" THEN Ok("addrs") ELSE o)
C11_DropStep ==
    \A c \in Calls :
        (Consumed(c) /\ Produced([c EXCEPT !.pc = "dropped"])) =>
            /\ c.pc \in {"init", "awaiting"}
            /\ cells' = cells /\ engines' = engines
            /\ attempts' = attempts /\ handles' = handles
            /\ calls' (-) One([c EXCEPT !.pc = "dropped"]) = calls (-) One(c)
C11_DropLeavesCellUsable == []C11_CellNeverWedged /\ [][C11_DropStep]_vars

\* A call built the engine, issued its lookup and was dropped while suspended;
\* a call started afterwards found that engine and completed successfully.
C11_Witness ==
    /\ \E c \in Calls : Dropped(c) /\ c.tries = 1 /\ c.issued = 1
    /\ \E d \in Calls :
          /\ ~d.fresh /\ d.tries = 0 /\ d.pc = "done" /\ d.result = Ok("addrs")
          /\ d.engine = cells[FirstCell].value

\* C12: construction is deferred to the first resolve call: as long as no
\* resolve call has been started, whatever new, with_config and clone did, the
\* cell is empty, no engine exists, and no construction attempt or read of the
\* system configuration has happened; clone and with_config steps never touch
\* the cell or the counters; and every attempt ever made is owned by a resolve
\* call that was at its initialisation step.
Tried(c) == c.tries = 1
C12_NothingBeforeResolve ==
    /\ calls = EmptyBag =>
          /\ \A i \in CellIds : cells[i] = EmptyCell /\ attempts[i] = 0
          /\ engines = <<>>
          /\ sysReads = 0
    /\ \A c \in Calls : c.tries <= 1
    /\ attempts[FirstCell] = CountCalls(Tried)
    /\ sysReads <= attempts[FirstCell]
C12_AttemptOnlyInResolve ==
    /\ calls' = calls =>
          cells' = cells /\ engines' = engines /\ attempts' = attempts /\ sysReads' = sysReads
    /\ attempts' # attempts =>
          \E c \in Calls : c.pc = "init" /\ Consumed(c) /\ attempts'[FirstCell] = attempts[FirstCell] + 1
    /\ sysReads' # sysReads => \E c \in Calls : Constructing(c) /\ Consumed(c)
C12_DeferredConstruction == []C12_NothingBeforeResolve /\ [][C12_AttemptOnlyInResolve]_vars

\* The handle has been cloned and one of the handles given an explicit
\* configuration, no resolve call has been made, and the cell is still empty.
C12_Witness ==
    /\ calls = EmptyBag
    /\ BagCardinality(handles) >= 2
    /\ \E h \in Handles : h.config.some
    /\ \E h \in Handles : ~h.config.some
    /\ cells[FirstCell] = EmptyCell /\ attempts[FirstCell] = 0

\* C13 (as stated): the restricted-destination error has a kind that no other
\* error of resolve has, so that the kind of the returned error alone tells a
\* restricted destination from a failed lookup or a failed construction: a
\* completed call's error has the kind of the restricted error exactly when
\* the lookup succeeded and the filter rejected every address.
ErrorKind(e) == <<e.type, e.kind>>
Restricted(c) ==
    /\ c.pc = "done" /\ c.response.tag = "Ok"
    /\ ~SomePasses(c.response.val, c.resolver.filter)
Failed(c) == c.pc = "done" /\ c.result.tag = "Err"
C14_AtMostOnce ==
    /\ \A c \in Calls :
          /\ c.tries <= 1 /\ c.issued <= 1
          /\ c.result.tag = "Err" => c.pc = "done"
          /\ Failed(c) =>
                \/ /\ c.result.err = ConfigError
                   /\ c.tries = 1 /\ c.issued = 0 /\ c.response = Pending
                \/ /\ c.response.tag = "Err" /\ c.result = c.response
                   /\ c.issued = 1
                \/ /\ c.response.tag = "Ok" /\ c.result.err = RestrictedError
                   /\ c.issued = 1
    /\ attempts[FirstCell] <= BagCardinality(calls)
    /\ \A n \in Names : TotalQueries(n) <= BagCardinality(calls)
C14_FailureIsFinal ==
    \A c \in Calls : Failed(c) =>
        /\ CopiesIn(c, calls') >= CopiesIn(c, calls)
        /\ (CountCalls(Failed) = BagCardinality(calls) /\ BagCardinality(calls) = MaxCalls) =>
              (attempts' = attempts /\ engines' = engines)
C14_NoInternalRetry == []C14_AtMostOnce /\ [][C14_FailureIsFinal]_vars

\* One call failed with the configuration error after its single attempt;
\* another built the engine and failed with the engine's error after its
\* single lookup.
C14_Witness ==
    /\ \E c \in Calls : ConfigFailed(c) /\ c.tries = 1 /\ c.issued = 0
    /\ \E d \in Calls :
          /\ Failed(d) /\ d.response.tag = "Err" /\ d.tries = 1 /\ d.issued = 1
    /\ attempts[FirstCell] = 2
    /\ \A n \in Names : TotalQueries(n) = 1

\* C15: the steps of a resolve call happen in the order initialise, lookup,
\* filter check, sequence creation: a lookup is issued only by a call holding
\* the engine stored in the shared cell; a response exists only after the
\* lookup was issued, filter evaluations only after a successful response, the
\* address sequence only after the filter accepted an address; and a call
\* whose construction attempt failed has issued no lookup and evaluated no
\* filter.
C15_StagesInOrder ==
    \A c \in Calls :
        /\ (c.pc \in {"lookup", "awaiting"} \/ c.issued >= 1) =>
              /\ c.engine \in DOMAIN engines
              /\ cells[FirstCell] = [status |-> "COMPLETE", value |-> c.engine]
        /\ c.response # Pending => c.issued = 1
        /\ c.filterEvals > 0 => c.response.tag = "Ok"
        /\ c.addrs.some =>
              /\ c.response.tag = "Ok" /\ c.filterEvals > 0
              /\ SomePasses(c.response.val, c.resolver.filter)
        /\ ConfigFailed(c) =>
              /\ c.engine = 0 /\ c.issued = 0 /\ c.response = Pending
              /\ c.filterEvals = 0 /\ ~c.addrs.some
C15_LookupOnStoredEngine ==
    (\E n \in Names : TotalQueries(n)' # TotalQueries(n)) =>
        /\ cells[FirstCell].status = "COMPLETE"
        /\ cells' = cells
        /\ \E c \in Calls :
              /\ c.pc = "lookup" /\ Consumed(c)
              /\ c.engine = cells[FirstCell].value
              /\ engines'[c.engine].queries[c.name] = engines[c.engine].queries[c.name] + 1
C15_InitLookupFilterSequence == []C15_StagesInOrder /\ [][C15_LookupOnStoredEngine]_vars

\* One call's construction failed: it issued no lookup and evaluated no filter;
\* another call built the engine, looked up, passed the filter check and
\* returned its address sequence.
C15_Witness ==
    /\ \E c \in Calls : ConfigFailed(c) /\ c.issued = 0 /\ c.filterEvals = 0
    /\ \E d \in Calls :
          /\ d.pc = "done" /\ d.tries = 1 /\ d.issued = 1
          /\ d.filterEvals > 0 /\ d.addrs.some
          /\ d.engine = cells[FirstCell].value

\* C16: every pull on the returned sequence terminates and is single-pass: what
\* remains of the raw iterator is always the unconsumed tail of the lookup's
\* list; a pull takes k elements from its front, where either the k-th is the
\* first that satisfies the filter and exactly it is yielded with port 0, or
\* none of the remaining elements satisfies the filter, all are taken and the
\* pull yields end-of-sequence.
C16_SinglePass ==
    \A c \in Calls : c.addrs.some =>
        LET raw == c.response.val
            rest == c.addrs.val.iter
        IN /\ c.consumed <= Len(raw)
           /\ rest = SubSeq(raw, c.consumed + 1, Len(raw))
           /\ Len(c.yielded) <= c.consumed
           /\ c.exhausted => rest = <<>>
C16_PullStep ==
    \A c \in Calls : (c.pc = "done" /\ Consumed(c)) =>
        \E d \in BagToSet(calls') :
            /\ Produced(d)
            /\ LET old == c.addrs.val.iter
                   f == c.addrs.val.filter
                   k == d.consumed - c.consumed
               IN /\ k \in 0..Len(old)
                  /\ d.addrs.val.iter = SubSeq(old, k + 1, Len(old))
                  /\ d.addrs.val.filter = f
                  /\ d.response = c.response /\ d.result = c.result
                  /\ \/ /\ k >= 1
                        /\ Filter(f, old[k])
                        /\ \A j \in 1..(k - 1) : ~Filter(f, old[j])
                        /\ d.yielded = Append(c.yielded, [ip |-> old[k], port |-> 0])
                        /\ ~d.exhausted
                     \/ /\ k = Len(old)
                        /\ \A j \in 1..k : ~Filter(f, old[j])
                        /\ d.yielded = c.yielded
                        /\ d.exhausted
C16_PullTerminatesForwardOnly == []C16_SinglePass /\ [][C16_PullStep]_vars

\* [127.0.0.1, 93.184.216.34, 10.0.0.1] under the reject-loopback filter: the
\* first pull consumed two raw elements and yielded the second, the next pull
\* yielded the third, and the last pull found the iterator empty.
C16_Witness ==
    \E c \in Calls :
        /\ c.resolver.filter = "reject_loopback"
        /\ c.response = Ok(<<Loopback, Public, Private>>)
        /\ c.yielded = <<[ip |-> Public, port |-> 0], [ip |-> Private, port |-> 0]>>
        /\ c.consumed = 3 /\ c.exhausted

\* C17: the sampled log line is observational only: whatever the sample, the
\* step that completes a lookup leaves the call exactly as it would be left
\* without the log line (same error or same address sequence, same filter
\* evaluations), apart from the line having been written, and changes neither
\* the cell, the engines nor the counters; the line is written only by the
\* hickory resolver after a successful lookup.
C17_LogOnlyAfterOkLookup ==
    \A c \in Calls : c.logged =>
        c.resolver.variant = "hickory" /\ c.pc = "done" /\ c.response.tag = "Ok"
C17_SampleStep ==
    \A c \in Calls : (c.pc = "awaiting" /\ Consumed(c)) =>
        \E d \in BagToSet(calls') :
            /\ Produced(d)
            /\ [d EXCEPT !.logged = FALSE] = CallAfterLookup(c, d.response, FALSE)
            /\ d.logged \in {FALSE, LogsLookup(c.resolver, d.response, TRUE)}
            /\ cells' = cells /\ engines' = engines
            /\ attempts' = attempts /\ sysReads' = sysReads /\ handles' = handles
C17_LoggingIsObservational == []C17_LogOnlyAfterOkLookup /\ [][C17_SampleStep]_vars

\* A lookup whose log line was written still failed with the restricted error
\* under the reject-loopback filter, the cell holding the engine as before.
C17_Witness ==
    \E c \in Calls :
        /\ c.logged
        /\ c.resolver.filter = "reject_loopback"
        /\ c.response = Ok(<<Loopback, Loopback>>)
        /\ c.result = Err(RestrictedError)
        /\ cells[FirstCell] = [status |-> "COMPLETE", value |-> c.engine]

\* C18: once the cell holds an engine it is never emptied and never given
\* another one: every later step, in particular the completion of a lookup
\* with an engine error, with the restricted error or with success, leaves the
\* cell, the engine's configuration and the attempt counters as they were;
\* every call that has completed a lookup still finds its engine in the cell,
\* and from then on a call at its initialisation step can only take the stored
\* engine, never start a construction.
LookedUp(c) == c.pc = "done" /\ c.response # Pending
C18_EngineStays ==
    /\ \A c \in Calls : LookedUp(c) =>
          /\ cells[FirstCell] = [status |-> "COMPLETE", value |-> c.engine]
          /\ c.engine \in DOMAIN engines
    /\ (\E c \in Calls : LookedUp(c)) =>
          /\ \A d \in Calls : ~Constructing(d)
          /\ \A d \in Calls : d.pc = "init" => (ENABLED InitGet(d) /\ ~ENABLED InitBegin(d))
C18_CompleteCellFrame ==
    /\ (\E c \in Calls : c.pc = "awaiting" /\ Consumed(c)) =>
          cells' = cells /\ engines' = engines /\ attempts' = attempts
    /\ cells[FirstCell].status = "COMPLETE" =>
          LET v == cells[FirstCell].value
          IN /\ cells'[FirstCell] = cells[FirstCell]
             /\ v \in DOMAIN engines'
             /\ engines'[v].config = engines[v].config
             /\ engines'[v].opts = engines[v].opts
             /\ attempts'[FirstCell] = attempts[FirstCell]
C18_SlotNeverReset == []C18_EngineStays /\ [][C18_CompleteCellFrame]_vars

\* A call built the engine and its lookup failed with the engine's error; a
\* call started afterwards took the same engine without an attempt and
\* completed its own lookup.
C18_Witness ==
    /\ attempts[FirstCell] = 1
    /\ \E c \in Calls :
          /\ LookedUp(c) /\ c.tries = 1 /\ c.response.tag = "Err"
          /\ c.engine = cells[FirstCell].value
    /\ \E d \in Calls :
          /\ LookedUp(d) /\ ~d.fresh /\ d.tries = 0 /\ d.response.tag = "Ok"
          /\ d.engine = cells[FirstCell].value

\* C19: the two resolvers are observably equivalent: whenever the hickory
\* handle (no explicit configuration) and the trust_dns handle have completed
\* the same number of calls under the same system-configuration results and
\* lookup responses, every hickory call has a trust_dns counterpart with the
\* same outcome (the same error, or the same address sequence), the same
\* number of attempts and of lookups, and the two cells agree in state,
\* attempts made and lookups received.
QueriesOf(i, name) ==
    IF cells[i].status = "COMPLETE" THEN engines[cells[i].value].queries[name] ELSE 0
RoundEnd ==
    /\ Idle(FirstCell) /\ Idle(SecondCell)
    /\ FamilySize(FirstCell) = FamilySize(SecondCell)
C19_VariantsAgree ==
    RoundEnd =>
        /\ \A c \in Calls :
              ObservedIn(FirstCell, Observed(c)) = ObservedIn(SecondCell, Observed(c))
        /\ cells[FirstCell].status = cells[SecondCell].status
        /\ attempts[FirstCell] = attempts[SecondCell]
        /\ \A n \in Names : QueriesOf(FirstCell, n) = QueriesOf(SecondCell, n)
        /\ sysReads = attempts[FirstCell] + attempts[SecondCell]

\* Both handles made two calls: the first failed with the configuration error
\* on each, the second built the engine and returned the address sequence on
\* each; the hickory call wrote its log line, which trust_dns never does.
C19_Witness ==
    /\ RoundEnd
    /\ FamilySize(FirstCell) = 2
    /\ attempts[FirstCell] = 2 /\ attempts[SecondCell] = 2
    /\ \A i \in {FirstCell, SecondCell} :
          /\ \E c \in Family(i) : ConfigFailed(c)
          /\ \E d \in Family(i) : d.result = Ok("addrs") /\ d.tries = 1 /\ d.issued = 1
    /\ \E c \in Family(FirstCell) : c.logged

====
